---- MODULE Spec2Model ----
(***************************************************************************)
(* git-ws: bounded concurrent dispatch (src/src/executor.rs) and           *)
(* repository discovery (src/src/workspace.rs).                            *)
(*                                                                         *)
(* Spec     : one call of BatchExecutor::execute_operation.                *)
(* DiscSpec : calls of Workspace::discover_repositories on a directory     *)
(*            tree.                                                        *)
(***************************************************************************)
EXTENDS Integers, Sequences, FiniteSets, TLC

VARIABLES
    concurrency_limit,  \* BatchExecutor.concurrency_limit
    repositories,       \* the Vec<GitRepository> passed to execute_operation
    repo_state,         \* per submitted repository: what the operation does on it
    semaphore,          \* permits available in the tokio Semaphore
    handles,            \* number of JoinHandles pushed so far (tasks spawned)
    tasks,              \* per spawned task: position and output
    pc,                 \* position of execute_operation itself
    joined,             \* number of handles already awaited by the join loop
    results,            \* the results vector being built
    ret,                \* what execute_operation returned: "none", "Ok", "Err"
    overtaken,          \* some unit ended before one submitted ahead of it
    root_path,          \* Workspace.root_path
    fs,                 \* the directory tree: path -> "absent" | "file" | "dir"
    ws_repositories,    \* Workspace.repositories: name -> GitRepository
    disc_ret,           \* what the last discover_repositories returned
    disc_io,            \* the I/O errors met by the last discover_repositories
    disc_calls,         \* number of discover_repositories calls made
    prev_repositories,  \* Workspace.repositories as the last call found it on entry
    stable_calls        \* discover_repositories calls since the tree last changed

vars == <<concurrency_limit, repositories, repo_state, semaphore, handles,
          tasks, pc, joined, results, ret, overtaken, root_path, fs, ws_repositories, disc_ret,
          disc_io, disc_calls, prev_repositories, stable_calls>>

exec_vars == <<concurrency_limit, repositories, repo_state, semaphore, handles,
               tasks, pc, joined, results, ret, overtaken>>

disc_vars == <<root_path, fs, ws_repositories, disc_ret, disc_io, disc_calls,
               prev_repositories, stable_calls>>

----------------------------------------------------------------------------
(* Bounds *)

MaxRepos == 3
MaxLimit == 3
MaxCalls == 2

----------------------------------------------------------------------------
(* GitRepository *)

\* A path is the sequence of its components.
FileName(path) == IF Len(path) = 0 THEN "" ELSE path[Len(path)]

GitRepository_new(path) == [path |-> path, name |-> FileName(path)]

\* Repositories a caller may submit; two of them share the final component.
RepoPool ==
    { GitRepository_new(<<"w", "a">>),
      GitRepository_new(<<"w", "b">>),
      GitRepository_new(<<"w", "c">>),
      GitRepository_new(<<"w", "d", "a">>) }

RECURSIVE SeqsOfLen(_, _)
SeqsOfLen(S, n) ==
    IF n = 0 THEN { <<>> }
    ELSE { Append(s, x) : s \in SeqsOfLen(S, n - 1), x \in S }

Distinct(s) == \A i, j \in 1..Len(s) : i # j => s[i] # s[j]

Submissions ==
    { s \in UNION { SeqsOfLen(RepoPool, n) : n \in 0..MaxRepos } : Distinct(s) }

----------------------------------------------------------------------------
(* The operation *)

RepoStates == { "clean", "broken", "faulty" }

\* GitOperation::execute on a repository that does not make it panic: Ok with
\* a payload for that repository, or Err with that repository's failure.
Execute(repo, state) == [ok |-> state = "clean", repo |-> repo.path]

NoOutput == [name |-> "", result |-> [ok |-> FALSE, repo |-> <<>>]]

N == Len(repositories)

\* Unit i ends while a unit submitted before it has not ended yet.
Overtakes(i) ==
    \E j \in 1..(i - 1) : tasks[j].st \notin { "finished", "panicked" }

----------------------------------------------------------------------------
(* The directory tree *)

Join(path, name) == Append(path, name)

Parent(path) == SubSeq(path, 1, Len(path) - 1)

\* The names of the tree whose first character is '.'.
DotNames == { ".git", ".h" }

StartsWithDot(name) == name \in DotNames

RootPaths == { <<"w">>, <<".h">> }

\* Entries that may exist below the root, relative to it.
RelPaths ==
    { <<".git">>,
      <<"a">>, <<"a", ".git">>, <<"a", ".git", "o">>,
      <<"d">>, <<"d", "a">>, <<"d", "a", ".git">>,
      <<".h">>, <<".h", "a">>, <<".h", "a", ".git">> }

\* Entries that may also be regular files.
FileOk == { <<".git">>, <<"a">> }

TreePaths(root) == { root } \cup { root \o r : r \in RelPaths }

Kinds(root, path) ==
    IF \E r \in FileOk : path = root \o r
    THEN { "absent", "file", "dir" }
    ELSE { "absent", "dir" }

\* Only a directory has entries.
WellFormed(root, tree) ==
    \A path \in DOMAIN tree :
        (path # root /\ tree[path] # "absent") => tree[Parent(path)] = "dir"

Trees(root) ==
    { tree \in [TreePaths(root) -> { "absent", "file", "dir" }] :
        /\ \A path \in DOMAIN tree : tree[path] \in Kinds(root, path)
        /\ WellFormed(root, tree) }

\* Path::exists and Path::is_dir
Exists(path) == path \in DOMAIN fs /\ fs[path] # "absent"

IsDir(path) == path \in DOMAIN fs /\ fs[path] = "dir"

\* the entries fs::read_dir yields for a directory
DirEntries(path) ==
    { e \in DOMAIN fs : Len(e) = Len(path) + 1 /\ Parent(e) = path /\ Exists(e) }

EmptyMap == [x \in {} |-> x]

\* Variant of Insert: an existing entry is kept (entry().or_insert()).
Insert_KeepsExisting(map, key, value) ==
    [k \in DOMAIN map \cup { key } |-> IF k \in DOMAIN map THEN map[k] ELSE value]

\* HashMap::insert
Insert(map, key, value) ==
    [k \in DOMAIN map \cup { key } |-> IF k = key THEN value ELSE map[k]]

\* The directories whose listing may fail, relative to the root: the root
\* itself and one of its children.
IoFaultRel == { <<>>, <<"d">> }

IoFaultPaths(root) == { root \o r : r \in IoFaultRel }

\* An I/O outcome names the directories on which fs::read_dir fails and those
\* on which next_entry fails.
IoOutcomes(root) ==
    [read_dir : SUBSET IoFaultPaths(root), next_entry : SUBSET IoFaultPaths(root)]

NoIoError == [read_dir |-> {}, next_entry |-> {}]

----------------------------------------------------------------------------
(* BatchExecutor *)

BatchExecutor_new(limit) == limit

IdleDiscovery ==
    /\ root_path = <<"w">>
    /\ fs = EmptyMap
    /\ ws_repositories = EmptyMap
    /\ disc_ret = "none"
    /\ disc_io = NoIoError
    /\ disc_calls = 0
    /\ prev_repositories = EmptyMap
    /\ stable_calls = 0

Init ==
    /\ \E k \in 0..MaxLimit : concurrency_limit = BatchExecutor_new(k)
    /\ repositories \in Submissions
    /\ repo_state \in [1..Len(repositories) -> RepoStates]
    /\ semaphore = concurrency_limit
    /\ handles = 0
    /\ tasks = [i \in 1..Len(repositories) |-> [st |-> "unspawned", output |-> NoOutput]]
    /\ pc = "spawn"
    /\ joined = 0
    /\ results = <<>>
    /\ ret = "none"
    /\ overtaken = FALSE
    /\ IdleDiscovery

\* for repo in repositories { ... task::spawn(...); handles.push(handle); }
SpawnTask ==
    /\ pc = "spawn"
    /\ handles < N
    /\ handles' = handles + 1
    /\ tasks' = [tasks EXCEPT ![handles + 1].st = "waiting"]
    /\ UNCHANGED <<concurrency_limit, overtaken, repositories, repo_state, semaphore, pc,
                   joined, results, ret>>
    /\ UNCHANGED disc_vars

\* the spawn loop is over; let mut results = Vec::new();
StartJoin ==
    /\ pc = "spawn"
    /\ handles = N
    /\ pc' = "join"
    /\ results' = <<>>
    /\ UNCHANGED <<concurrency_limit, overtaken, repositories, repo_state, semaphore,
                   handles, tasks, joined, ret>>
    /\ UNCHANGED disc_vars

\* Variant of Acquire: the task proceeds without waiting for a free permit.
Acquire_NoWait(i) ==
    /\ tasks[i].st = "waiting"
    /\ semaphore' = semaphore - 1
    /\ tasks' = [tasks EXCEPT ![i].st = "running"]
    /\ UNCHANGED <<concurrency_limit, overtaken, repositories, repo_state, handles, pc,
                   joined, results, ret>>
    /\ UNCHANGED disc_vars

\* Variant of Acquire: the last permit is never handed out.
Acquire_KeepsOne(i) ==
    /\ tasks[i].st = "waiting"
    /\ semaphore > 1
    /\ semaphore' = semaphore - 1
    /\ tasks' = [tasks EXCEPT ![i].st = "running"]
    /\ UNCHANGED <<concurrency_limit, overtaken, repositories, repo_state, handles, pc,
                   joined, results, ret>>
    /\ UNCHANGED disc_vars

\* let _permit = semaphore.acquire().await.unwrap();
Acquire(i) ==
    /\ tasks[i].st = "waiting"
    /\ semaphore > 0
    /\ semaphore' = semaphore - 1
    /\ tasks' = [tasks EXCEPT ![i].st = "running"]
    /\ UNCHANGED <<concurrency_limit, overtaken, repositories, repo_state, handles, pc,
                   joined, results, ret>>
    /\ UNCHANGED disc_vars

\* Variant of Finish: a failing operation aborts the units still waiting.
Finish_AbortsOthers(i) ==
    /\ tasks[i].st = "running"
    /\ repo_state[i] # "faulty"
    /\ tasks' = [j \in DOMAIN tasks |->
                    IF j = i
                    THEN [st |-> "finished",
                          output |-> [name |-> repositories[i].name,
                                      result |-> Execute(repositories[i], repo_state[i])]]
                    ELSE IF repo_state[i] = "broken" /\ tasks[j].st = "waiting"
                    THEN [st |-> "finished",
                          output |-> [name |-> repositories[j].name,
                                      result |-> Execute(repositories[j], "broken")]]
                    ELSE tasks[j]]
    /\ semaphore' = semaphore + 1
    /\ overtaken' = (overtaken \/ Overtakes(i))
    /\ UNCHANGED <<concurrency_limit, repositories, repo_state, handles, pc,
                   joined, results, ret>>
    /\ UNCHANGED disc_vars

\* Variant of Finish: the name in the output is the first submitted
\* repository's name instead of the task's own repository's.
Finish_WrongName(i) ==
    /\ tasks[i].st = "running"
    /\ repo_state[i] # "faulty"
    /\ tasks' = [tasks EXCEPT ![i] =
                    [st |-> "finished",
                     output |-> [name |-> repositories[1].name,
                                 result |-> Execute(repositories[i], repo_state[i])]]]
    /\ semaphore' = semaphore + 1
    /\ overtaken' = (overtaken \/ Overtakes(i))
    /\ UNCHANGED <<concurrency_limit, repositories, repo_state, handles, pc,
                   joined, results, ret>>
    /\ UNCHANGED disc_vars

\* let result = operation.execute(repo.clone()).await; (repo.name.clone(), result)
\* and _permit is dropped.
Finish(i) ==
    /\ tasks[i].st = "running"
    /\ repo_state[i] # "faulty"
    /\ tasks' = [tasks EXCEPT ![i] =
                    [st |-> "finished",
                     output |-> [name |-> repositories[i].name,
                                 result |-> Execute(repositories[i], repo_state[i])]]]
    /\ semaphore' = semaphore + 1
    /\ overtaken' = (overtaken \/ Overtakes(i))
    /\ UNCHANGED <<concurrency_limit, repositories, repo_state, handles, pc,
                   joined, results, ret>>
    /\ UNCHANGED disc_vars

\* Variant of Panic: the permit is not given back when the task unwinds.
Panic_LeaksPermit(i) ==
    /\ tasks[i].st = "running"
    /\ repo_state[i] = "faulty"
    /\ tasks' = [tasks EXCEPT ![i].st = "panicked"]
    /\ overtaken' = (overtaken \/ Overtakes(i))
    /\ UNCHANGED <<concurrency_limit, repositories, repo_state, semaphore,
                   handles, pc, joined, results, ret>>
    /\ UNCHANGED disc_vars

\* operation.execute panics: the task ends abnormally, unwinding drops _permit.
Panic(i) ==
    /\ tasks[i].st = "running"
    /\ repo_state[i] = "faulty"
    /\ tasks' = [tasks EXCEPT ![i].st = "panicked"]
    /\ semaphore' = semaphore + 1
    /\ overtaken' = (overtaken \/ Overtakes(i))
    /\ UNCHANGED <<concurrency_limit, repositories, repo_state, handles, pc,
                   joined, results, ret>>
    /\ UNCHANGED disc_vars

\* Variant of JoinHandle: only successful outcomes are pushed.
JoinHandle_DropsFailures ==
    /\ pc = "join"
    /\ joined < N
    /\ tasks[joined + 1].st = "finished"
    /\ joined' = joined + 1
    /\ results' = IF tasks[joined + 1].output.result.ok
                  THEN Append(results, tasks[joined + 1].output)
                  ELSE results
    /\ UNCHANGED <<concurrency_limit, overtaken, repositories, repo_state, semaphore,
                   handles, tasks, pc, ret>>
    /\ UNCHANGED disc_vars

\* Variant of JoinHandle: an operation's Err is propagated as the batch's Err.
JoinHandle_PropagatesErr ==
    /\ pc = "join"
    /\ joined < N
    /\ tasks[joined + 1].st = "finished"
    /\ IF tasks[joined + 1].output.result.ok
       THEN /\ joined' = joined + 1
            /\ results' = Append(results, tasks[joined + 1].output)
            /\ UNCHANGED <<pc, ret>>
       ELSE /\ pc' = "done"
            /\ ret' = "Err"
            /\ UNCHANGED <<joined, results>>
    /\ UNCHANGED <<concurrency_limit, overtaken, repositories, repo_state, semaphore,
                   handles, tasks>>
    /\ UNCHANGED disc_vars

\* Variant of JoinHandle: the result is put at the front of the vector.
JoinHandle_Prepends ==
    /\ pc = "join"
    /\ joined < N
    /\ tasks[joined + 1].st = "finished"
    /\ joined' = joined + 1
    /\ results' = <<tasks[joined + 1].output>> \o results
    /\ UNCHANGED <<concurrency_limit, overtaken, repositories, repo_state, semaphore,
                   handles, tasks, pc, ret>>
    /\ UNCHANGED disc_vars

\* handle.await is Ok(result): results.push(result);
JoinHandle ==
    /\ pc = "join"
    /\ joined < N
    /\ tasks[joined + 1].st = "finished"
    /\ joined' = joined + 1
    /\ results' = Append(results, tasks[joined + 1].output)
    /\ UNCHANGED <<concurrency_limit, overtaken, repositories, repo_state, semaphore,
                   handles, tasks, pc, ret>>
    /\ UNCHANGED disc_vars

\* handle.await is Err(JoinError): map_err(...)? returns Err(OperationFailed).
\* The handles not yet awaited are dropped, which detaches their tasks.
JoinFailed ==
    /\ pc = "join"
    /\ joined < N
    /\ tasks[joined + 1].st = "panicked"
    /\ pc' = "done"
    /\ ret' = "Err"
    /\ UNCHANGED <<concurrency_limit, overtaken, repositories, repo_state, semaphore,
                   handles, tasks, joined, results>>
    /\ UNCHANGED disc_vars

\* Ok(results)
Return ==
    /\ pc = "join"
    /\ joined = N
    /\ pc' = "done"
    /\ ret' = "Ok"
    /\ UNCHANGED <<concurrency_limit, overtaken, repositories, repo_state, semaphore,
                   handles, tasks, joined, results>>
    /\ UNCHANGED disc_vars

Next ==
    \/ SpawnTask
    \/ StartJoin
    \/ \E i \in 1..N : Acquire(i)
    \/ \E i \in 1..N : Finish(i)
    \/ \E i \in 1..N : Panic(i)
    \/ JoinHandle
    \/ JoinFailed
    \/ Return

Spec == Init /\ [][Next]_vars

\* Scheduling: the runtime keeps polling execute_operation and every spawned
\* task that can run (weak fairness); the tokio Semaphore hands permits out in
\* the order they were requested, so a waiting task is not passed over for
\* ever while permits keep coming back (strong fairness of Acquire).
Fairness ==
    /\ WF_vars(SpawnTask)
    /\ WF_vars(StartJoin)
    /\ WF_vars(JoinHandle)
    /\ WF_vars(JoinFailed)
    /\ WF_vars(Return)
    /\ \A i \in 1..MaxRepos :
          /\ SF_vars(i \in 1..N /\ Acquire(i))
          /\ WF_vars(i \in 1..N /\ Finish(i))
          /\ WF_vars(i \in 1..N /\ Panic(i))

\* Progress does not depend on which repositories are submitted nor on their
\* order: the fair specification submits the first n of the pool in one order.
PoolOrder ==
    << GitRepository_new(<<"w", "a">>),
       GitRepository_new(<<"w", "b">>),
       GitRepository_new(<<"w", "c">>),
       GitRepository_new(<<"w", "d", "a">>) >>

FairInit ==
    /\ Init
    /\ \E n \in 0..Len(PoolOrder) : repositories = SubSeq(PoolOrder, 1, n)

FairSpec == FairInit /\ [][Next]_vars /\ Fairness

----------------------------------------------------------------------------
(* Workspace *)

Workspace_new(path) == [root_path |-> path, repositories |-> EmptyMap]

\* What the spawn_blocking closure run for a child directory returns: the
\* repositories of a fresh Workspace::new(PathBuf::new()), whatever the child.
ChildScan(entry_path) == Workspace_new(<<>>).repositories

\* let repo = GitRepository::new(path.clone());
\* self.repositories.insert(repo.name.clone(), repo);
Register(repos, path) ==
    LET repo == GitRepository_new(path)
    IN  Insert(repos, repo.name, repo)

\* A directory whose name is hidden and is not the marker's.
HiddenName(path) ==
    Len(path) > 0 /\ StartsWithDot(FileName(path)) /\ FileName(path) # ".git"

\* A walk that does descend: the steps of discover_repositories_recursive at
\* path, then the same walk on every child directory, merging what they find
\* and propagating their errors.  Used by the variants below.
RECURSIVE WalkTree(_, _, _, _)
RECURSIVE WalkChildren(_, _, _, _)
WalkTree(repos, path, io, skipHidden) ==
    IF Exists(Join(path, ".git"))
    THEN LET repo == GitRepository_new(path)
         IN  [repositories |-> Insert(repos, repo.name, repo), result |-> "Ok"]
    ELSE IF skipHidden /\ HiddenName(path)
    THEN [repositories |-> repos, result |-> "Ok"]
    ELSE IF ~IsDir(path) \/ path \in io.read_dir
    THEN [repositories |-> repos, result |-> "Ok"]
    ELSE IF path \in io.next_entry
    THEN [repositories |-> repos, result |-> "Err"]
    ELSE WalkChildren(repos, { d \in DirEntries(path) : IsDir(d) }, io, skipHidden)

WalkChildren(repos, children, io, skipHidden) ==
    IF children = {}
    THEN [repositories |-> repos, result |-> "Ok"]
    ELSE LET e == CHOOSE d \in children : TRUE
             r == WalkTree(repos, e, io, skipHidden)
         IN  IF r.result = "Err"
             THEN r
             ELSE WalkChildren(r.repositories, children \ { e }, io, skipHidden)

\* Variant: the walk descends and the hidden-name test is missing.
discover_repositories_recursive_WalksHidden(repos, path, io) ==
    WalkTree(repos, path, io, FALSE)

\* Variant: the walk descends and a child's enumeration error is propagated.
discover_repositories_recursive_Recurses(repos, path, io) ==
    WalkTree(repos, path, io, TRUE)

\* Variant: no return after registering a repository root; the root is listed.
discover_repositories_recursive_NoEarlyReturn(repos, path, io) ==
    LET repo == GitRepository_new(path)
        found == IF Exists(Join(path, ".git"))
                 THEN Insert(repos, repo.name, repo)
                 ELSE repos
    IN  IF HiddenName(path)
        THEN [repositories |-> found, result |-> "Ok"]
        ELSE IF ~IsDir(path) \/ path \in io.read_dir
        THEN [repositories |-> found, result |-> "Ok"]
        ELSE IF path \in io.next_entry
        THEN [repositories |-> found, result |-> "Err"]
        ELSE [repositories |-> found, result |-> "Ok"]

\* Variant: the marker test is path.exists() instead of path.join(".git").exists().
discover_repositories_recursive_RegistersAnyDir(repos, path, io) ==
    IF Exists(path)
    THEN LET repo == GitRepository_new(path)
         IN  [repositories |-> Insert(repos, repo.name, repo), result |-> "Ok"]
    ELSE [repositories |-> repos, result |-> "Ok"]

\* Variant: the directory is opened before the marker test.
discover_repositories_recursive_ListsFirst(repos, path, io) ==
    IF ~IsDir(path) \/ path \in io.read_dir
    THEN [repositories |-> repos, result |-> "Ok"]
    ELSE IF Exists(Join(path, ".git"))
    THEN LET repo == GitRepository_new(path)
         IN  [repositories |-> Insert(repos, repo.name, repo), result |-> "Ok"]
    ELSE IF HiddenName(path)
    THEN [repositories |-> repos, result |-> "Ok"]
    ELSE IF path \in io.next_entry
    THEN [repositories |-> repos, result |-> "Err"]
    ELSE [repositories |-> repos, result |-> "Ok"]

\* Variant: the hidden-name test comes before the marker test.
discover_repositories_recursive_HiddenFirst(repos, path, io) ==
    IF HiddenName(path)
    THEN [repositories |-> repos, result |-> "Ok"]
    ELSE IF Exists(Join(path, ".git"))
    THEN [repositories |-> Register(repos, path), result |-> "Ok"]
    ELSE IF ~IsDir(path) \/ path \in io.read_dir
    THEN [repositories |-> repos, result |-> "Ok"]
    ELSE IF path \in io.next_entry
    THEN [repositories |-> repos, result |-> "Err"]
    ELSE [repositories |-> repos, result |-> "Ok"]

\* discover_repositories_recursive(path) on the index repos; io says which of
\* the calls to the file system fail.  The value is the index afterwards and
\* the Result.
discover_repositories_recursive(repos, path, io) ==
    IF Exists(Join(path, ".git"))
    THEN [repositories |-> Register(repos, path), result |-> "Ok"]
    ELSE IF Len(path) > 0 /\ StartsWithDot(FileName(path)) /\ FileName(path) # ".git"
    THEN [repositories |-> repos, result |-> "Ok"]
    ELSE IF ~IsDir(path) \/ path \in io.read_dir
    THEN [repositories |-> repos, result |-> "Ok"]
    ELSE IF path \in io.next_entry
    THEN [repositories |-> repos, result |-> "Err"]
    ELSE LET scanned == { ChildScan(e) : e \in { d \in DirEntries(path) : IsDir(d) } }
         IN  \* each _repositories is dropped: nothing is merged into self
             [repositories |-> repos, result |-> "Ok"]

IdleExecutor ==
    /\ concurrency_limit = BatchExecutor_new(0)
    /\ repositories = <<>>
    /\ repo_state = <<>>
    /\ semaphore = 0
    /\ handles = 0
    /\ tasks = <<>>
    /\ pc = "idle"
    /\ joined = 0
    /\ results = <<>>
    /\ ret = "none"
    /\ overtaken = FALSE

DiscInit ==
    /\ root_path \in RootPaths
    /\ fs \in Trees(root_path)
    /\ ws_repositories = Workspace_new(root_path).repositories
    /\ disc_ret = "none"
    /\ disc_io = NoIoError
    /\ disc_calls = 0
    /\ prev_repositories = EmptyMap
    /\ stable_calls = 0
    /\ IdleExecutor

\* Variant of DiscoverRepositories: the index is not cleared first.
DiscoverRepositories_NoClear ==
    /\ disc_calls < MaxCalls
    /\ \E io \in IoOutcomes(root_path) :
          LET r == discover_repositories_recursive(ws_repositories, root_path, io)
          IN  /\ ws_repositories' = r.repositories
              /\ disc_ret' = r.result
              /\ disc_io' = io
    /\ disc_calls' = disc_calls + 1
    /\ prev_repositories' = ws_repositories
    /\ stable_calls' = stable_calls + 1
    /\ UNCHANGED <<root_path, fs>>
    /\ UNCHANGED exec_vars

\* self.repositories.clear();
\* self.discover_repositories_recursive(self.root_path.clone()).await?; Ok(())
DiscoverRepositories ==
    /\ disc_calls < MaxCalls
    /\ \E io \in IoOutcomes(root_path) :
          LET cleared == EmptyMap
              r == discover_repositories_recursive(cleared, root_path, io)
          IN  /\ ws_repositories' = r.repositories
              /\ disc_ret' = r.result
              /\ disc_io' = io
    /\ disc_calls' = disc_calls + 1
    /\ prev_repositories' = ws_repositories
    /\ stable_calls' = stable_calls + 1
    /\ UNCHANGED <<root_path, fs>>
    /\ UNCHANGED exec_vars

\* The environment creates, removes or replaces one entry of the tree between
\* two calls.
TreeChange ==
    /\ disc_calls >= 1
    /\ disc_calls < MaxCalls
    /\ \E path \in DOMAIN fs :
          \E kind \in Kinds(root_path, path) :
              /\ kind # fs[path]
              /\ WellFormed(root_path, [fs EXCEPT ![path] = kind])
              /\ fs' = [fs EXCEPT ![path] = kind]
    /\ stable_calls' = 0
    /\ UNCHANGED <<root_path, ws_repositories, disc_ret, disc_io, disc_calls,
                   prev_repositories>>
    /\ UNCHANGED exec_vars

\* HashMap::values
IndexValues(map) == { map[n] : n \in DOMAIN map }

DiscNext ==
    \/ DiscoverRepositories
    \/ TreeChange

DiscSpec == DiscInit /\ [][DiscNext]_vars

----------------------------------------------------------------------------
(* main: discovery, then one batch over the discovered repositories *)

\* BatchExecutor::new(4)
MainLimit == 4

\* A root with repository a/ holding one untracked file, and repository b/.
E2ETree ==
    [path \in { <<"w">>, <<"w", "a">>, <<"w", "a", ".git">>, <<"w", "a", "x.txt">>,
                <<"w", "b">>, <<"w", "b", ".git">> } |->
        IF path = <<"w", "a", "x.txt">> THEN "file" ELSE "dir"]

MainTrees(root) ==
    Trees(root) \cup (IF root = <<"w">> THEN { E2ETree } ELSE {})

MainInit ==
    /\ root_path \in RootPaths
    /\ fs \in MainTrees(root_path)
    /\ ws_repositories = Workspace_new(root_path).repositories
    /\ disc_ret = "none"
    /\ disc_io = NoIoError
    /\ disc_calls = 0
    /\ prev_repositories = EmptyMap
    /\ stable_calls = 0
    /\ IdleExecutor

\* workspace.discover_repositories().await?;
Main_Discover ==
    /\ pc = "idle"
    /\ disc_calls = 0
    /\ DiscoverRepositories

\* Workspace::list_repositories: the values of the map, in the map's order.
list_repositories(map) ==
    { s \in SeqsOfLen(IndexValues(map), Cardinality(DOMAIN map)) : Distinct(s) }

\* let executor = BatchExecutor::new(..);
\* executor.execute_operation(operation, workspace.list_repositories()...)
Main_Execute ==
    /\ pc = "idle"
    /\ disc_calls = 1
    /\ disc_ret = "Ok"
    /\ \E k \in (1..MaxLimit) \cup { MainLimit } :
          /\ concurrency_limit' = BatchExecutor_new(k)
          /\ semaphore' = k
    /\ repositories' \in list_repositories(ws_repositories)
    /\ repo_state' \in [1..Cardinality(DOMAIN ws_repositories) -> RepoStates]
    /\ handles' = 0
    /\ tasks' = [i \in 1..Cardinality(DOMAIN ws_repositories) |->
                    [st |-> "unspawned", output |-> NoOutput]]
    /\ pc' = "spawn"
    /\ joined' = 0
    /\ results' = <<>>
    /\ ret' = "none"
    /\ overtaken' = FALSE
    /\ UNCHANGED disc_vars

MainNext ==
    \/ Main_Discover
    \/ Main_Execute
    \/ Next

MainSpec == MainInit /\ [][MainNext]_vars

----------------------------------------------------------------------------
(* Properties of discover_repositories *)

IsRepoRoot(path) == Exists(Join(path, ".git"))

Indexed(path) ==
    \E n \in DOMAIN ws_repositories : ws_repositories[n].path = path

Prefixes(path) == { SubSeq(path, 1, k) : k \in Len(root_path)..(Len(path) - 1) }

\* path lies below the root through directories that are neither hidden nor
\* repository roots.
ReachableFromRoot(path) ==
    /\ Len(path) > Len(root_path)
    /\ SubSeq(path, 1, Len(root_path)) = root_path
    /\ \A q \in Prefixes(path) :
          IsDir(q) /\ ~StartsWithDot(FileName(q)) /\ ~IsRepoRoot(q)

RepoRoots == { path \in DOMAIN fs : IsRepoRoot(path) }

\* C9: after a discovery that met no I/O error, on a root that is not a
\* repository, every repository root reachable from the root through
\* directories that are neither hidden nor repository roots is in the index.
C9_DiscoveryComplete ==
    (disc_ret = "Ok" /\ disc_io = NoIoError /\ ~IsRepoRoot(root_path)) =>
        \A path \in RepoRoots : ReachableFromRoot(path) => Indexed(path)

\* C10: when the only repository below a non-repository root is R, a child of
\* the root whose .git directory has a directory inside, discovery yields
\* exactly one descriptor, the one for R.
C10_Scenario ==
    LET R == Join(root_path, "a")
    IN  /\ ~StartsWithDot(FileName(root_path))
        /\ IsDir(Join(Join(R, ".git"), "o"))
        /\ RepoRoots = { R }

C10_NoDescentIntoInternals ==
    (disc_ret = "Ok" /\ disc_io = NoIoError /\ C10_Scenario) =>
        /\ DOMAIN ws_repositories = { "a" }
        /\ ws_repositories["a"] = GitRepository_new(Join(root_path, "a"))

IoFaults == disc_io.read_dir \cup disc_io.next_entry

IsProperPrefix(p, q) == Len(p) < Len(q) /\ SubSeq(q, 1, Len(p)) = p

IndexPaths(map) == { map[n].path : n \in DOMAIN map }

\* path lies below a hidden directory that is not a repository root.
UnderHidden(path) ==
    \E q \in Prefixes(path) : HiddenName(q) /\ ~IsRepoRoot(q)

\* C11: after discovery, no repository nested below a hidden directory that
\* is not itself a repository root is in the index.
C11_HiddenSkip ==
    stable_calls >= 1 =>
        \A path \in RepoRoots : UnderHidden(path) => ~Indexed(path)

C11_Witness ==
    /\ stable_calls >= 1 /\ disc_ret = "Ok"
    /\ ~HiddenName(root_path) /\ ~IsRepoRoot(root_path)
    /\ IsRepoRoot(root_path \o <<".h", "a">>)
    /\ IoFaults = {}

\* C12: when the root is itself a repository, discovery succeeds without
\* listing the root, and the index is exactly the root's descriptor.
C12_RootIsRepository ==
    (stable_calls >= 1 /\ IsRepoRoot(root_path)) =>
        /\ disc_ret = "Ok"
        /\ DOMAIN ws_repositories = { FileName(root_path) }
        /\ ws_repositories[FileName(root_path)] =
              [path |-> root_path, name |-> FileName(root_path)]

C12_Witness ==
    /\ stable_calls >= 1
    /\ IsRepoRoot(root_path)
    /\ IsRepoRoot(Join(root_path, "a"))
    /\ root_path \in disc_io.next_entry
    /\ DOMAIN ws_repositories = { FileName(root_path) }

\* C13: when the root cannot be opened, discover_repositories returns an
\* error.
C13_RootErrorSurfaced ==
    (/\ stable_calls >= 1
     /\ ~IsRepoRoot(root_path) /\ ~HiddenName(root_path)
     /\ (~IsDir(root_path) \/ root_path \in disc_io.read_dir))
    => disc_ret = "Err"

\* C14: when listing fails only on directories below the root, discovery
\* returns Ok and no indexed repository lies below such a directory.
C14_UnlistableSubdirAbsorbed ==
    (stable_calls >= 1 /\ root_path \notin IoFaults) =>
        /\ disc_ret = "Ok"
        /\ \A f \in IoFaults :
              \A path \in IndexPaths(ws_repositories) : ~IsProperPrefix(f, path)

C14_Witness ==
    /\ stable_calls >= 1 /\ disc_ret = "Ok"
    /\ ~HiddenName(root_path) /\ ~IsRepoRoot(root_path)
    /\ IsRepoRoot(root_path \o <<"d", "a">>)
    /\ disc_io.next_entry = { Join(root_path, "d") }
    /\ disc_io.read_dir = {}

\* C15: on a root directory with no repository at any depth, a discovery that
\* could list the root returns Ok with an empty index.
C15_NoRepositoriesIsEmptyOk ==
    (/\ stable_calls >= 1
     /\ IsDir(root_path) /\ RepoRoots = {}
     /\ root_path \notin IoFaults)
    => (disc_ret = "Ok" /\ ws_repositories = EmptyMap)

C15_Witness ==
    /\ stable_calls >= 1 /\ disc_ret = "Ok"
    /\ RepoRoots = {}
    /\ ~HiddenName(root_path)
    /\ IsDir(Join(root_path, "a")) /\ IsDir(root_path \o <<"d", "a">>)
    /\ ws_repositories = EmptyMap

\* C16: two consecutive discoveries on an unmodified tree leave indexes with
\* the same set of repository paths.
C16_DiscoveryIdempotent ==
    stable_calls >= 2 =>
        IndexPaths(ws_repositories) = IndexPaths(prev_repositories)

C16_Witness ==
    /\ stable_calls >= 2
    /\ IndexPaths(ws_repositories) = { root_path }
    /\ IndexPaths(prev_repositories) = { root_path }
    /\ IsDir(Join(root_path, "a"))

\* C17: after a discovery, every index entry is a repository of the tree as
\* that call saw it: no entry of an earlier call survives.
C17_FullReplace ==
    stable_calls >= 1 =>
        \A path \in IndexPaths(ws_repositories) : IsRepoRoot(path)

C17_Witness ==
    /\ stable_calls >= 1 /\ disc_calls >= 2
    /\ \E path \in IndexPaths(prev_repositories) : ~IsRepoRoot(path)
    /\ ws_repositories = EmptyMap

\* C22: a visited directory that contains .git is registered even when its
\* name is hidden; a hidden directory is skipped only when it is not a
\* repository root.
C22_MarkerBeatsHiddenName ==
    (stable_calls >= 1 /\ HiddenName(root_path)) =>
        /\ disc_ret = "Ok"
        /\ IF IsRepoRoot(root_path)
           THEN Indexed(root_path)
           ELSE ws_repositories = EmptyMap

C22_Witness ==
    /\ stable_calls >= 1
    /\ HiddenName(root_path)
    /\ IsRepoRoot(root_path)
    /\ Indexed(root_path)

\* A repository root elsewhere whose final component is the root's.
Namesake == Join(Join(root_path, "d"), FileName(root_path))

----------------------------------------------------------------------------
(* Properties of execute_operation *)

InFlight == { i \in 1..N : tasks[i].st = "running" }
Ended == { i \in 1..N : tasks[i].st \in { "finished", "panicked" } }
NoFault == \A i \in 1..N : repo_state[i] # "faulty"
NormalEntry(i) ==
    [name |-> repositories[i].name,
     result |-> Execute(repositories[i], repo_state[i])]

\* C1: when no invocation ends abnormally, execute_operation returns Ok with
\* exactly N outcomes, one per submitted repository, however many of the
\* invocations returned a failure.
C1_BatchCompleteness ==
    (pc = "done" /\ NoFault) =>
        /\ ret = "Ok"
        /\ Len(results) = N
        /\ \A i \in 1..N :
              Cardinality({ k \in 1..Len(results) :
                              results[k].result.repo = repositories[i].path }) = 1

C1_Witness ==
    /\ pc = "done" /\ ret = "Ok"
    /\ N >= 2 /\ concurrency_limit >= 1 /\ concurrency_limit <= N
    /\ Len(results) = N
    /\ \E i \in 1..N : repo_state[i] = "broken"

\* C2: the number of operation invocations started and not yet finished never
\* exceeds the concurrency limit.
C2_ConcurrencyBound == Cardinality(InFlight) <= concurrency_limit

C2_Witness ==
    /\ concurrency_limit >= 1
    /\ Cardinality(InFlight) = concurrency_limit
    /\ \E i \in 1..N : tasks[i].st = "waiting"

\* C3: an invocation that returns a failure changes no other unit, and when
\* exactly one repository fails and the others are clean, the others' returned
\* entries are their own successes.
C3_OneFails ==
    /\ Cardinality({ i \in 1..N : repo_state[i] = "broken" }) = 1
    /\ \A i \in 1..N : repo_state[i] \in { "clean", "broken" }

C3_OthersSucceed ==
    (pc = "done" /\ C3_OneFails) =>
        /\ ret = "Ok"
        /\ Len(results) = N
        /\ \A j \in 1..N :
              repo_state[j] = "clean" =>
                  results[j] = [name |-> repositories[j].name,
                                result |-> [ok |-> TRUE, repo |-> repositories[j].path]]

C3_FailureStep ==
    \A i \in 1..N :
        (tasks[i].st = "running" /\ tasks'[i].st = "finished"
            /\ ~tasks'[i].output.result.ok)
        => \A j \in 1..N : j # i => tasks'[j] = tasks[j]

C3_FailureIsolation == []C3_OthersSucceed /\ [][C3_FailureStep]_vars

C3_Witness ==
    /\ pc = "done" /\ ret = "Ok" /\ C3_OneFails
    /\ N >= 3
    /\ repo_state[1] = "broken"
    /\ results[2].result.ok /\ results[3].result.ok

\* C4: a unit that ends abnormally gives a successful batch result in which
\* that repository has a failure entry and every other repository its normal
\* entry.
C4_FaultIsConverted ==
    (pc = "done" /\ ~NoFault) =>
        /\ ret = "Ok"
        /\ Len(results) = N
        /\ \A i \in 1..N :
              IF repo_state[i] = "faulty"
              THEN results[i].name = repositories[i].name /\ ~results[i].result.ok
              ELSE results[i] = NormalEntry(i)

\* C5: when execute_operation has returned, no unit is still waiting for a
\* permit or running its operation.
C5_FullJoin == pc = "done" => Ended = 1..N

\* C6: the call returns Err only on a JoinError of the awaited handle; when
\* every invocation returns normally, with a failure or not, the call returns
\* Ok and each failure is recorded in its repository's entry.
C6_OnlyJoinErrorIsFatal ==
    /\ ret = "Err" => (joined < N /\ tasks[joined + 1].st = "panicked")
    /\ (pc = "done" /\ NoFault) =>
          /\ ret = "Ok"
          /\ \A i \in 1..N :
                i <= Len(results) /\ results[i].result.ok = (repo_state[i] = "clean")

C6_Witness ==
    /\ pc = "done" /\ ret = "Ok"
    /\ N >= 2
    /\ \A i \in 1..N : repo_state[i] = "broken" /\ ~results[i].result.ok

\* C7: in a returned collection every submitted repository has exactly one
\* entry, and each entry's name is the name of the repository its outcome was
\* produced on.
C7_ResultAttribution ==
    ret = "Ok" =>
        /\ \A i \in 1..N :
              Cardinality({ k \in 1..Len(results) :
                              results[k].result.repo = repositories[i].path }) = 1
        /\ \A k \in 1..Len(results) :
              \E i \in 1..N :
                  /\ repositories[i].path = results[k].result.repo
                  /\ repositories[i].name = results[k].name

C7_Witness ==
    /\ ret = "Ok"
    /\ N >= 2
    /\ concurrency_limit >= 2
    /\ \E i, j \in 1..N : repositories[i].name # repositories[j].name

\* C18: on the tree with repositories a/ (one untracked file) and b/ (no
\* change), discovery followed by a batch with limit 2 on healthy
\* repositories returns Ok with exactly two entries, a successful one for a
\* and a successful one for b.
C18_EndToEnd ==
    (/\ fs = E2ETree
     /\ pc = "done"
     /\ concurrency_limit = 2
     /\ \A i \in 1..N : repo_state[i] = "clean")
    => /\ ret = "Ok"
       /\ Len(results) = 2
       /\ \E i, j \in 1..Len(results) :
             /\ results[i].name = "a" /\ results[i].result.ok
             /\ results[j].name = "b" /\ results[j].result.ok

\* C19: every running unit holds one permit and no other permit is out, so
\* permits held plus permits free equal the limit, and when all units have
\* ended, however they ended, all permits are free.
C19_SlotProtocol ==
    /\ semaphore >= 0
    /\ semaphore + Cardinality(InFlight) = concurrency_limit
    /\ Ended = 1..N => semaphore = concurrency_limit

C19_Witness ==
    /\ N >= 2 /\ Ended = 1..N
    /\ concurrency_limit >= 1
    /\ semaphore = concurrency_limit
    /\ \E i \in 1..N : tasks[i].st = "panicked"
    /\ \E i \in 1..N : tasks[i].st = "finished" /\ ~tasks[i].output.result.ok

\* C20: under fair scheduling, with a limit of at least 1 every unit's
\* operation is invoked, once, and ends, and execute_operation returns; with
\* no repository it returns Ok with no entry whatever the limit.
Rank(st) ==
    CASE st = "unspawned" -> 0
      [] st = "waiting" -> 1
      [] st = "running" -> 2
      [] OTHER -> 3

C20_InvokedOnce ==
    \A i \in 1..N : Rank(tasks'[i].st) >= Rank(tasks[i].st)

C20_Progress ==
    /\ (concurrency_limit >= 1 \/ N = 0) => <>(pc = "done" /\ Ended = 1..N)
    /\ N = 0 => <>(ret = "Ok" /\ results = <<>>)
    /\ [][C20_InvokedOnce]_vars

C20_Witness ==
    /\ pc = "done" /\ Ended = 1..N
    /\ N >= 2
    /\ concurrency_limit = 1

\* C21: a returned collection is in submission order: its i-th entry is the
\* i-th submitted repository's, in whatever order the units ended.
C21_SubmissionOrder ==
    ret = "Ok" =>
        /\ Len(results) = N
        /\ \A i \in 1..N :
              /\ results[i].result.repo = repositories[i].path
              /\ results[i].name = repositories[i].name

C21_Witness ==
    /\ ret = "Ok"
    /\ N >= 2
    /\ overtaken
    /\ \A i \in 1..N : results[i].result.repo = repositories[i].path

\* C8: with a concurrency limit of 0 no batch is started and none succeeds.
C8_ZeroLimitRejected ==
    concurrency_limit = 0 => (handles = 0 /\ ret # "Ok")

====
